---- MODULE Spec2Model ----
(***************************************************************************)
(* A model of src/claude_code_generator.py: the response parser            *)
(* (parse_code_blocks), the structure extractor (extract_file_structure),  *)
(* the materializer (write_file, create_directories, process_response)     *)
(* acting on a POSIX file system, and the session loop (start_generation). *)
(*                                                                         *)
(* A Python str is a sequence of characters; a character is a one-character*)
(* TLA+ string (or a token naming one code point that TLA+ cannot spell).  *)
(* pathlib.Path is PosixPath: '/' is the only separator.                   *)
(***************************************************************************)
EXTENDS Integers, Sequences, FiniteSets, TLC

(***************************************************************************)
(* Python str operations                                                   *)
(***************************************************************************)

\* The characters str.strip() removes (those of them the model's texts use).
Whitespace == {" ", "\t", "\n", "\r", "\f"}

Last(s) == s[Len(s)]

\* LET v == e IN F(v), with e computed once.
Bind(e, F(_)) == CHOOSE r \in { F(v) : v \in {e} } : TRUE

\* sub in s
Contains(s, sub) ==
    \E i \in 0..(Len(s) - Len(sub)) : SubSeq(s, i + 1, i + Len(sub)) = sub

\* s.startswith(pre)
StartsWith(s, pre) == Len(pre) <= Len(s) /\ SubSeq(s, 1, Len(pre)) = pre

\* s.endswith(suf)
EndsWith(s, suf) ==
    Len(suf) <= Len(s) /\ SubSeq(s, Len(s) - Len(suf) + 1, Len(s)) = suf

\* s.replace(old, new) for a non-empty old: leftmost, non-overlapping.
RECURSIVE Replace(_, _, _)
Replace(s, old, new) ==
    IF Len(s) < Len(old) THEN s
    ELSE IF SubSeq(s, 1, Len(old)) = old
         THEN new \o Replace(SubSeq(s, Len(old) + 1, Len(s)), old, new)
         ELSE <<s[1]>> \o Replace(Tail(s), old, new)

RECURSIVE LStrip(_)
LStrip(s) == IF s # <<>> /\ s[1] \in Whitespace THEN LStrip(Tail(s)) ELSE s

RECURSIVE RStrip(_)
RStrip(s) ==
    IF s # <<>> /\ Last(s) \in Whitespace
    THEN RStrip(SubSeq(s, 1, Len(s) - 1)) ELSE s

\* s.strip()
Strip(s) == RStrip(LStrip(s))

\* The positions of sep in s.
SepAt(s, sep) == { i \in 1..Len(s) : s[i] = sep }

\* The k-th cut of s at sep: 0, the positions of sep in order, Len(s) + 1.
Cut(s, sep, k) ==
    IF k = 0 THEN 0
    ELSE IF k > Cardinality(SepAt(s, sep)) THEN Len(s) + 1
    ELSE CHOOSE i \in SepAt(s, sep) :
            Cardinality({ j \in SepAt(s, sep) : j < i }) = k - 1

\* s.split(sep) for a one-character sep: always at least one piece.
Split(s, sep) ==
    [ k \in 1..(Cardinality(SepAt(s, sep)) + 1) |->
        SubSeq(s, Cut(s, sep, k - 1) + 1, Cut(s, sep, k) - 1) ]

\* sep.join(pieces)
RECURSIVE Join(_, _)
Join(pieces, sep) ==
    IF pieces = <<>> THEN <<>>
    ELSE IF Len(pieces) = 1 THEN pieces[1]
         ELSE pieces[1] \o <<sep>> \o Join(Tail(pieces), sep)

Uppers == <<"A", "B", "C", "D", "E", "F", "G", "H", "I", "J", "K", "L", "M",
            "N", "O", "P", "Q", "R", "S", "T", "U", "V", "W", "X", "Y", "Z">>
Lowers == <<"a", "b", "c", "d", "e", "f", "g", "h", "i", "j", "k", "l", "m",
            "n", "o", "p", "q", "r", "s", "t", "u", "v", "w", "x", "y", "z">>

LowerChar(c) ==
    IF \E i \in 1..Len(Uppers) : Uppers[i] = c
    THEN Lowers[CHOOSE i \in 1..Len(Uppers) : Uppers[i] = c]
    ELSE c

\* s.lower()
Lower(s) == [i \in 1..Len(s) |-> LowerChar(s[i])]

\* Optional[str]: None is <<>>, a string s is <<s>>.
None == <<>>
Some(s) == <<s>>
\* Python truthiness of an Optional[str]: neither None nor "".
Truthy(opt) == opt # None /\ opt[1] # <<>>

(***************************************************************************)
(* parse_code_blocks                                                       *)
(***************************************************************************)

\* U+0060, which a TLA+ string cannot hold.
Backtick == "U+0060"
Fence == <<Backtick, Backtick, Backtick>>
FileLabel == <<"F", "i", "l", "e", ":">>
Slash == "/"
Backslash == "\\"
Dot == "."

\* The extensions tested by line.endswith(...) in the hint condition.
HintExtensions ==
    { <<".", "p", "y">>, <<".", "j", "s">>, <<".", "h", "t", "m", "l">>,
      <<".", "c", "s", "s">>, <<".", "j", "s", "o", "n">> }

Python == <<"p", "y", "t", "h", "o", "n">>
Javascript == <<"j", "a", "v", "a", "s", "c", "r", "i", "p", "t">>
DefaultStem == <<"d", "e", "f", "a", "u", "l", "t", ".">>

\* The part of the hint condition that looks at the line alone.
LooksLikePath(line) ==
    \/ Contains(line, FileLabel)
    \/ \E ext \in HintExtensions : EndsWith(line, ext)
    \/ (Contains(line, <<Slash>>) /\ Contains(Last(Split(line, Slash)), <<Dot>>))

\* {"file_path": None, "code": ""}. opened_at is a history field the code does
\* not have: the number of the line that opened the block, stamped by ScanLine
\* (0 when the block is parsed by parse_code_blocks as a whole).
EmptyBlock == [file_path |-> None, code |-> <<>>, opened_at |-> 0]

\* The loop's state: the locals of parse_code_blocks.
ParserStart ==
    [ in_code_block |-> FALSE,
      current_block |-> EmptyBlock,
      file_path_line |-> <<>>,
      code_blocks |-> <<>> ]

\* file_path_line = line.replace("File:", "").strip()
SetHint(st, line) ==
    [st EXCEPT !.file_path_line = Strip(Replace(line, FileLabel, <<>>))]

\* DefaultPath with the language names left unmapped.
DefaultPathTagOnly(language_marker) == DefaultStem \o language_marker

\* f"default.{extension}"
DefaultPath(language_marker) ==
    DefaultStem \o (IF language_marker = Python THEN <<"p", "y">>
                    ELSE IF language_marker = Javascript THEN <<"j", "s">>
                    ELSE language_marker)

\* BlockPath looking at the language tag before the hint.
BlockPathTagFirst(st, language_marker) ==
    IF language_marker # <<>> THEN Some(DefaultPath(language_marker))
    ELSE IF st.file_path_line # <<>> THEN Some(st.file_path_line)
    ELSE st.current_block.file_path

\* The path an opening fence gives its block.
BlockPath(st, language_marker) ==
    IF st.file_path_line # <<>> THEN Some(st.file_path_line)
    ELSE IF language_marker # <<>> THEN Some(DefaultPath(language_marker))
    ELSE st.current_block.file_path

\* OpenBlock leaving the hint pending.
OpenBlockKeepHint(st, line) ==
    LET language_marker == Strip(Replace(line, Fence, <<>>))
    IN  [st EXCEPT !.in_code_block = TRUE,
                   !.current_block.file_path = BlockPath(st, language_marker)]

\* Start of code block.
OpenBlock(st, line) ==
    LET language_marker == Strip(Replace(line, Fence, <<>>))
    IN  [st EXCEPT !.in_code_block = TRUE,
                   !.current_block.file_path = BlockPath(st, language_marker),
                   !.file_path_line = <<>>]

\* Keeps looking at the path alone.
KeepsAnyContent(block) == Truthy(block.file_path)

\* The test that decides whether a closed block is kept.
Keeps(block) == Truthy(block.file_path) /\ Strip(block.code) # <<>>

\* CloseBlock putting the block at the front of the list.
CloseBlockPrepend(st) ==
    [st EXCEPT !.in_code_block = FALSE,
               !.code_blocks = IF Keeps(st.current_block)
                               THEN <<st.current_block>> \o @ ELSE @,
               !.current_block = EmptyBlock]

\* End of code block.
CloseBlock(st) ==
    [st EXCEPT !.in_code_block = FALSE,
               !.code_blocks = IF Keeps(st.current_block)
                               THEN Append(@, st.current_block) ELSE @,
               !.current_block = EmptyBlock]

\* AppendContent without the newline after the line.
AppendContentNoNewline(st, line) ==
    [st EXCEPT !.current_block.code = @ \o line]

\* Content within code block.
AppendContent(st, line) ==
    [st EXCEPT !.current_block.code = @ \o line \o <<"\n">>]

\* ParseLine taking a fence line that carries a tag, met inside a block, as
\* content of the block.
ParseLineNested(st, line) ==
    IF ~st.in_code_block /\ ~Contains(line, Fence) /\ LooksLikePath(line)
    THEN SetHint(st, line)
    ELSE IF Contains(line, Fence) /\ ~st.in_code_block THEN OpenBlock(st, line)
    ELSE IF /\ Contains(line, Fence) /\ st.in_code_block
            /\ Strip(Replace(line, Fence, <<>>)) = <<>>
         THEN CloseBlock(st)
    ELSE IF st.in_code_block THEN AppendContent(st, line)
    ELSE st

\* One iteration of `for line in lines`.
ParseLine(st, line) ==
    IF ~st.in_code_block /\ ~Contains(line, Fence) /\ LooksLikePath(line)
    THEN SetHint(st, line)
    ELSE IF Contains(line, Fence) /\ ~st.in_code_block THEN OpenBlock(st, line)
    ELSE IF Contains(line, Fence) /\ st.in_code_block THEN CloseBlock(st)
    ELSE IF st.in_code_block THEN AppendContent(st, line)
    ELSE st

\* The loop over the lines.
RECURSIVE ParseLines(_, _)
ParseLines(st, lines) ==
    IF lines = <<>> THEN st
    ELSE Bind(ParseLine(st, lines[1]), LAMBDA next : ParseLines(next, Tail(lines)))

parse_code_blocks(text) ==
    Bind(Split(text, "\n"), LAMBDA ls : ParseLines(ParserStart, ls).code_blocks)

(***************************************************************************)
(* extract_file_structure                                                  *)
(***************************************************************************)

StructureMarkers ==
    { <<"d", "i", "r", "e", "c", "t", "o", "r", "y", " ",
        "s", "t", "r", "u", "c", "t", "u", "r", "e">>,
      <<"f", "i", "l", "e", " ", "s", "t", "r", "u", "c", "t", "u", "r", "e">>,
      <<"p", "r", "o", "j", "e", "c", "t", " ",
        "s", "t", "r", "u", "c", "t", "u", "r", "e">> }

\* The three tree-drawing literals of line 131, code point by code point.
Glyph1 == <<"U+201A", "U+00EE", "U+00EE", "U+201A", "U+00EE", "U+00C4",
            "U+201A", "U+00EE", "U+00C4", " ">>
Glyph2 == <<"U+201A", "U+00EE", "U+00FA", "U+201A", "U+00EE", "U+00C4",
            "U+201A", "U+00EE", "U+00C4", " ">>
Glyph3 == <<"U+201A", "U+00EE", "U+00C7", " ", " ", " ">>

\* line.strip().replace(...).replace(...).replace(...)
CleanLine(line) ==
    Replace(Replace(Replace(Strip(line), Glyph1, <<>>), Glyph2, <<>>), Glyph3, <<>>)

\* IsCandidate without the test for a dot.
IsCandidateAnyName(clean_line) ==
    \/ Contains(clean_line, <<Slash>>) \/ Contains(clean_line, <<Backslash>>)
    \/ (clean_line # <<>> /\ ~StartsWith(clean_line, <<"-">>))

\* Whether a cleaned line of a structure section is collected.
IsCandidate(clean_line) ==
    \/ Contains(clean_line, <<Slash>>) \/ Contains(clean_line, <<Backslash>>)
    \/ (/\ ~Contains(clean_line, <<Dot>>)
        /\ clean_line # <<>>
        /\ ~StartsWith(clean_line, <<"-">>))

\* The loop's state: the locals of extract_file_structure.
StructStart == [in_structure_section |-> FALSE, directories |-> <<>>]

\* One iteration of `for i, line in enumerate(lines)`.
StructLine(st, line) ==
    IF \E m \in StructureMarkers : Contains(Lower(line), m)
    THEN [st EXCEPT !.in_structure_section = TRUE]
    ELSE LET still == st.in_structure_section
                      /\ ~(Strip(line) = <<>> \/ Contains(line, <<"#", "#">>))
         IN  [ in_structure_section |-> still,
               directories |-> IF still /\ IsCandidate(CleanLine(line))
                               THEN Append(st.directories, CleanLine(line))
                               ELSE st.directories ]

RECURSIVE StructLines(_, _)
StructLines(st, ls) ==
    IF ls = <<>> THEN st
    ELSE Bind(StructLine(st, ls[1]), LAMBDA next : StructLines(next, Tail(ls)))

extract_file_structure(text) ==
    Bind(Split(text, "\n"), LAMBDA ls : StructLines(StructStart, ls).directories)

(***************************************************************************)
(* pathlib (PosixPath) and the file system                                 *)
(***************************************************************************)

DotDot == <<Dot, Dot>>

\* PosixPath(s): whether it is rooted, and its parts; empty and "." segments
\* are dropped, ".." is kept. (A leading "//" is read as "/".)
PosixPath(s) ==
    [ abs |-> StartsWith(s, <<Slash>>),
      parts |-> SelectSeq(Split(s, Slash), LAMBDA x : x # <<>> /\ x # <<Dot>>) ]

\* base / s
Div(base, s) ==
    IF PosixPath(s).abs THEN PosixPath(s)
    ELSE [abs |-> base.abs, parts |-> base.parts \o PosixPath(s).parts]

\* path.name
PathName(path) == IF path.parts = <<>> THEN <<>> ELSE Last(path.parts)

\* path.parent
PathParent(path) ==
    IF path.parts = <<>> THEN path
    ELSE [path EXCEPT !.parts = SubSeq(@, 1, Len(@) - 1)]

\* A node of the file system is the sequence of names from the root to it.
Root == <<>>
\* The process's working directory.
Cwd == << <<"w">> >>
\* self.output_dir, a relative path.
output_dir == PosixPath(<<"o", "u", "t">>)
\* The node output_dir names.
OutNode == Cwd \o output_dir.parts

NodeParent(node) == IF node = <<>> THEN <<>> ELSE SubSeq(node, 1, Len(node) - 1)

\* The kernel's path walk from `node`: every node it steps from must be a
\* directory; ".." steps to the parent. The node reached need not exist.
RECURSIVE Walk(_, _, _)
Walk(D, node, parts) ==
    IF parts = <<>> THEN [ok |-> TRUE, node |-> node]
    ELSE IF node \notin D THEN [ok |-> FALSE, node |-> node]
    ELSE Walk(D, IF parts[1] = DotDot THEN NodeParent(node)
                 ELSE Append(node, parts[1]), Tail(parts))

Resolve(fs, path) == Walk(fs.dirs, IF path.abs THEN Root ELSE Cwd, path.parts)

\* os.path.exists / Path.exists
Exists(fs, path) ==
    LET w == Resolve(fs, path)
    IN  w.ok /\ (w.node \in fs.dirs \/ w.node \in DOMAIN fs.files)

\* os.path.isdir
IsDir(fs, path) ==
    LET w == Resolve(fs, path) IN w.ok /\ w.node \in fs.dirs

\* os.mkdir(path): [ok, fs].
Mkdir(fs, path) ==
    LET w == Resolve(fs, path)
    IN  IF w.ok /\ w.node \notin fs.dirs /\ w.node \notin DOMAIN fs.files
        THEN [ok |-> TRUE, fs |-> [fs EXCEPT !.dirs = @ \cup {w.node}]]
        ELSE [ok |-> FALSE, fs |-> fs]

\* os.makedirs(path, exist_ok=True): [ok, fs]. The directories made before a
\* failure stay.
RECURSIVE MakeDirs(_, _)
MakeDirs(fs, path) ==
    LET head == PathParent(path)
    IN  Bind(IF path.parts # <<>> /\ head.parts # <<>> /\ ~Exists(fs, head)
             THEN MakeDirs(fs, head) ELSE [ok |-> TRUE, fs |-> fs], LAMBDA up :
        Bind(Mkdir(up.fs, path), LAMBDA made :
          IF ~up.ok THEN up
          ELSE IF made.ok THEN made
          ELSE [ok |-> IsDir(up.fs, path), fs |-> up.fs]))

\* One code point that UTF-8 cannot encode (a lone surrogate, U+DC80).
Surrogate == "U+DC80"

\* Whether f.write(code) can encode code.
Encodable(code) == \A i \in 1..Len(code) : code[i] # Surrogate

\* f.read() of a file opened with open(path, 'r'): universal newlines.
ReadText(content) ==
    Replace(Replace(content, <<"\r", "\n">>, <<"\n">>), <<"\r">>, <<"\n">>)

\* open(path, 'w'): creates or truncates. [ok, fs].
OpenWrite(fs, path) ==
    LET w == Resolve(fs, path)
    IN  IF w.ok /\ w.node \notin fs.dirs /\ path.parts # <<>>
        THEN [ok |-> TRUE,
              fs |-> [fs EXCEPT !.files =
                        [n \in DOMAIN @ \cup {w.node} |->
                           IF n = w.node THEN <<>> ELSE @[n]]]]
        ELSE [ok |-> FALSE, fs |-> fs]

\* f.write(code) on the file just opened at path.
WriteText(fs, path, code) ==
    [fs EXCEPT !.files[Resolve(fs, path).node] = code]

(***************************************************************************)
(* write_file, create_directories, process_response                        *)
(*                                                                         *)
(* A world is [fs, file_registry]: the file system ([dirs, files], files   *)
(* mapping a node to the characters on disk) and self.file_registry, an    *)
(* insertion-ordered dict kept as a sequence of [path, chars] entries      *)
(* (chars: the N of "File created: N characters").                         *)
(***************************************************************************)

\* file_path.strip().replace('"', '').replace("'", '')
CleanPath(file_path) ==
    Replace(Replace(Strip(file_path), <<"\"">>, <<>>), <<"'">>, <<>>)

\* Lines 152-156: the path write_file joins to output_dir.
SanitizePath(file_path) ==
    LET p == CleanPath(file_path)
    IN  IF StartsWith(p, <<Slash>>) \/ (Len(p) > 1 /\ p[2] = ":")
        THEN PathName(PosixPath(p))
        ELSE p

\* self.file_registry[key] = ...
RegistrySet(reg, key, chars) ==
    IF \E i \in 1..Len(reg) : reg[i].path = key
    THEN [i \in 1..Len(reg) |->
            IF reg[i].path = key THEN [path |-> key, chars |-> chars] ELSE reg[i]]
    ELSE Append(reg, [path |-> key, chars |-> chars])

Msg(kind, path) == [kind |-> kind, path |-> path]

\* Overwrite without the registration of the file.
OverwriteUnregistered(W, file_path, full_path, code) ==
    Bind(OpenWrite(W.fs, full_path), LAMBDA opened :
        IF ~opened.ok
        THEN [world |-> W, ok |-> FALSE, msg |-> Msg("error", file_path), writes |-> 0]
        ELSE IF ~Encodable(code)
        THEN [world |-> [W EXCEPT !.fs = opened.fs], ok |-> FALSE,
              msg |-> Msg("error", file_path), writes |-> 1]
        ELSE [world |-> [W EXCEPT !.fs = WriteText(opened.fs, full_path, code)],
              ok |-> TRUE, msg |-> Msg("wrote", file_path), writes |-> 1])

\* Lines 172-178, once the file is known to be new or different: open for
\* writing (which truncates), write, register.
Overwrite(W, file_path, full_path, code) ==
    Bind(OpenWrite(W.fs, full_path), LAMBDA opened :
        IF ~opened.ok
        THEN [world |-> W, ok |-> FALSE, msg |-> Msg("error", file_path), writes |-> 0]
        ELSE IF ~Encodable(code)
        THEN [world |-> [W EXCEPT !.fs = opened.fs], ok |-> FALSE,
              msg |-> Msg("error", file_path), writes |-> 1]
        ELSE [world |-> [fs |-> WriteText(opened.fs, full_path, code),
                         file_registry |->
                             RegistrySet(W.file_registry, file_path, Len(code))],
              ok |-> TRUE, msg |-> Msg("wrote", file_path), writes |-> 1])

\* write_file(file_path, code): [world, ok, msg, writes]; writes counts the
\* times the file was opened for writing.
WriteFile(W, raw_path, code) ==
    Bind(SanitizePath(raw_path), LAMBDA file_path :
    Bind(Div(output_dir, file_path), LAMBDA full_path :
    Bind(MakeDirs(W.fs, PathParent(full_path)), LAMBDA made :
    LET W1 == [W EXCEPT !.fs = made.fs]
        node == Resolve(made.fs, full_path).node
    IN  IF ~made.ok
        THEN [world |-> W1, ok |-> FALSE, msg |-> Msg("error", file_path), writes |-> 0]
        ELSE IF Exists(made.fs, full_path)
        THEN IF node \notin DOMAIN made.fs.files
             THEN [world |-> W1, ok |-> FALSE, msg |-> Msg("error", file_path),
                   writes |-> 0]
             ELSE IF ReadText(made.fs.files[node]) = code
             THEN [world |-> W1, ok |-> TRUE, msg |-> Msg("skipping", file_path),
                   writes |-> 0]
             ELSE Overwrite(W1, file_path, full_path, code)
        ELSE Overwrite(W1, file_path, full_path, code))))

\* Line 200: the test that skips a candidate as "actually a file".
LooksLikeFile(dir_path) ==
    \/ Contains(Last(Split(dir_path, Slash)), <<Dot>>)
    \/ Contains(Last(Split(dir_path, Backslash)), <<Dot>>)

\* One iteration of create_directories' loop: [world, messages].
CreateDirectory(W, raw_dir) ==
    Bind(CleanPath(raw_dir), LAMBDA dir_path :
      IF LooksLikeFile(dir_path) THEN [world |-> W, messages |-> <<>>]
      ELSE Bind(MakeDirs(W.fs, Div(output_dir, dir_path)), LAMBDA made :
             [world |-> [W EXCEPT !.fs = made.fs],
              messages |-> << Msg(IF made.ok THEN "created" ELSE "error_dir",
                                  dir_path) >>]))

\* create_directories(directories): [world, messages].
RECURSIVE CreateDirectories(_, _)
CreateDirectories(W, directories) ==
    IF directories = <<>> THEN [world |-> W, messages |-> <<>>]
    ELSE Bind(CreateDirectory(W, directories[1]), LAMBDA one :
         Bind(CreateDirectories(one.world, Tail(directories)), LAMBDA rest :
           [world |-> rest.world, messages |-> one.messages \o rest.messages]))

\* WriteBlocks giving up at the first write that fails.
RECURSIVE WriteBlocksAbort(_, _)
WriteBlocksAbort(W, blocks) ==
    IF blocks = <<>> THEN [world |-> W, messages |-> <<>>, writes |-> 0]
    ELSE Bind(WriteFile(W, blocks[1].file_path[1], blocks[1].code), LAMBDA one :
         Bind(IF one.ok THEN WriteBlocksAbort(one.world, Tail(blocks))
              ELSE [world |-> one.world, messages |-> <<>>, writes |-> 0],
              LAMBDA rest :
           [world |-> rest.world, messages |-> <<one.msg>> \o rest.messages,
            writes |-> one.writes + rest.writes]))

\* Lines 233-236: [world, messages, writes].
RECURSIVE WriteBlocks(_, _)
WriteBlocks(W, blocks) ==
    IF blocks = <<>> THEN [world |-> W, messages |-> <<>>, writes |-> 0]
    ELSE IF Truthy(blocks[1].file_path) /\ blocks[1].code # <<>>
    THEN Bind(WriteFile(W, blocks[1].file_path[1], blocks[1].code), LAMBDA one :
         Bind(WriteBlocks(one.world, Tail(blocks)), LAMBDA rest :
           [world |-> rest.world, messages |-> <<one.msg>> \o rest.messages,
            writes |-> one.writes + rest.writes]))
    ELSE WriteBlocks(W, Tail(blocks))

\* Lines 227-238, once the directories ds and the code blocks bs are
\* extracted: [world, messages, writes], and the two locals.
ProcessExtracted(W, ds, bs) ==
    Bind(IF ds # <<>> THEN CreateDirectories(W, ds)
         ELSE [world |-> W, messages |-> <<>>], LAMBDA dirs_done :
    Bind(WriteBlocks(dirs_done.world, bs), LAMBDA blocks_done :
      [world |-> blocks_done.world,
       messages |-> dirs_done.messages \o blocks_done.messages,
       writes |-> blocks_done.writes,
       directories |-> ds,
       code_blocks |-> bs]))

\* process_response(response_text). (parse_code_blocks reads the text alone,
\* so calling it before the directories are made changes nothing.)
ProcessResponse(W, response_text) ==
    Bind(extract_file_structure(response_text), LAMBDA ds :
    Bind(parse_code_blocks(response_text), LAMBDA bs :
      ProcessExtracted(W, ds, bs)))

(***************************************************************************)
(* State                                                                   *)
(***************************************************************************)

VARIABLES
    \* parse_code_blocks, read one line at a time
    lines,           \* the lines of text.split('\n') the loop has read so far
    in_code_block,   \* local
    current_block,   \* local
    file_path_line,  \* local: the pending hint
    code_blocks,     \* local, and the result
    parse_pc,        \* "idle" | "loop" | "returned"
    \* extract_file_structure, read one line at a time
    struct_lines,          \* the lines the loop has read so far
    in_structure_section,  \* local
    directories,           \* local, and the result
    struct_pc,             \* "idle" | "loop" | "returned"
    \* the generator object and the disk
    dirs,            \* the directories of the file system (nodes)
    files,           \* the regular files: node -> characters on disk
    file_registry,   \* self.file_registry
    last,            \* the last call made on the object, and what it returned
    ncalls,          \* how many calls were made
    \* start_generation
    conversation_history,  \* self.conversation_history: [role, content] turns
    should_continue,       \* local
    generation_round,      \* local
    sg_pc,                 \* where start_generation is: "idle" | "initial_call" |
                           \* "ask_continue" | "round_call" | "ask_retry" |
                           \* "completed" | "raised"
    calls_made,            \* history: the calls made to the collaborator
    failed_in_a_row        \* history: how many of them failed since the last
                           \* one that succeeded

parserVars ==
    <<lines, in_code_block, current_block, file_path_line, code_blocks, parse_pc>>
structVars == <<struct_lines, in_structure_section, directories, struct_pc>>
worldVars == <<dirs, files, file_registry, last, ncalls>>
sessionVars ==
    <<conversation_history, should_continue, generation_round, sg_pc,
      calls_made, failed_in_a_row>>
vars == <<parserVars, structVars, worldVars, sessionVars>>

ParserIdle ==
    /\ lines = <<>>
    /\ in_code_block = ParserStart.in_code_block
    /\ current_block = ParserStart.current_block
    /\ file_path_line = ParserStart.file_path_line
    /\ code_blocks = ParserStart.code_blocks
    /\ parse_pc = "idle"

StructIdle ==
    /\ struct_lines = <<>>
    /\ in_structure_section = StructStart.in_structure_section
    /\ directories = StructStart.directories
    /\ struct_pc = "idle"

NoCall ==
    [ op |-> "none", path |-> <<>>, code |-> <<>>, candidates |-> <<>>,
      text |-> <<>>, ok |-> TRUE, messages |-> <<>>, writes |-> 0,
      directories |-> <<>>, code_blocks |-> <<>> ]

\* start_generation has not been called. (Its two locals are not assigned
\* before lines 298-299; they hold the values those lines give them.)
SessionIdle ==
    /\ conversation_history = <<>>
    /\ should_continue = TRUE
    /\ generation_round = 1
    /\ sg_pc = "idle"
    /\ calls_made = 0
    /\ failed_in_a_row = 0

\* A new generator in a working directory where output_dir does not exist yet.
WorldInit ==
    /\ dirs = {Root, Cwd}
    /\ files = <<>>
    /\ file_registry = <<>>
    /\ last = NoCall
    /\ ncalls = 0

(***************************************************************************)
(* The parser, one line at a time                                          *)
(***************************************************************************)

\* The longest text, in lines.
MaxLines == 5
\* The longest text of the two-block runs, in lines.
MaxLongLines == 6

L_path == <<"s", "r", "c", "/", "a", "p", "p", ".", "p", "y">>
L_file == <<"F", "i", "l", "e", ":", " ", "b", ".", "j", "s">>
L_label == <<"F", "i", "l", "e", ":">>
L_fence == Fence
L_python == Fence \o Python
L_javascript == Fence \o Javascript
L_rust == Fence \o <<"r", "u", "s", "t">>
L_code == <<"x", " ", "=", " ", "1">>
L_blank == <<" ">>

\* The lines a text is made of.
LinePool ==
    { L_path, L_file, L_label, L_fence, L_python, L_javascript, L_rust,
      L_code, L_blank }

\* The lines of the longer texts.
ShortPool == { L_path, L_fence, L_python, L_code, L_blank }

ParserLocals ==
    [ in_code_block |-> in_code_block, current_block |-> current_block,
      file_path_line |-> file_path_line, code_blocks |-> code_blocks ]

\* The loop body on the next line of the text, a line of `pool`.
ScanLine(pool, max) ==
    /\ parse_pc = "loop"
    /\ Len(lines) < max
    /\ \E line \in pool :
         LET st == ParseLine(ParserLocals, line)
         IN  /\ lines' = Append(lines, line)
             /\ in_code_block' = st.in_code_block
             /\ current_block' =
                  IF ~in_code_block /\ st.in_code_block
                  THEN [st.current_block EXCEPT !.opened_at = Len(lines) + 1]
                  ELSE st.current_block
             /\ file_path_line' = st.file_path_line
             /\ code_blocks' = st.code_blocks
    /\ UNCHANGED <<parse_pc, structVars, worldVars, sessionVars>>

\* The text has no more lines (split gives at least one): return code_blocks.
ParseReturn ==
    /\ parse_pc = "loop"
    /\ Len(lines) >= 1
    /\ parse_pc' = "returned"
    /\ UNCHANGED <<lines, in_code_block, current_block, file_path_line,
                   code_blocks, structVars, worldVars, sessionVars>>

ParseInit ==
    /\ lines = <<>>
    /\ in_code_block = ParserStart.in_code_block
    /\ current_block = ParserStart.current_block
    /\ file_path_line = ParserStart.file_path_line
    /\ code_blocks = ParserStart.code_blocks
    /\ parse_pc = "loop"
    /\ StructIdle
    /\ WorldInit
    /\ SessionIdle

ParseNext == ScanLine(LinePool, MaxLines) \/ ParseReturn
ParseSpec == ParseInit /\ [][ParseNext]_vars

LongParseNext == ScanLine(ShortPool, MaxLongLines) \/ ParseReturn
LongParseSpec == ParseInit /\ [][LongParseNext]_vars

(***************************************************************************)
(* The structure extractor, one line at a time                             *)
(***************************************************************************)

\* The longest text, in lines.
MaxStructLines == 4

S_header == <<"P", "r", "o", "j", "e", "c", "t", " ",
              "S", "t", "r", "u", "c", "t", "u", "r", "e", ":">>
S_dir == <<"s", "r", "c", "/">>
S_readme == <<"R", "E", "A", "D", "M", "E", ".", "m", "d">>
S_makefile == <<"M", "a", "k", "e", "f", "i", "l", "e">>
S_bullet == <<"-", " ", "d", "o", "c", "s">>
S_tree == <<" ", " ">> \o Glyph2 \o <<"a", ".", "b">>
S_win == <<"l", "i", "b", "\\", "u", ".", "p", "y">>
S_empty == <<>>
S_heading == <<"#", "#", " ", "N", "e", "x", "t">>

StructPool ==
    { S_header, S_dir, L_path, S_readme, S_makefile, S_bullet, S_tree, S_win,
      S_empty, S_heading }

StructLocals ==
    [in_structure_section |-> in_structure_section, directories |-> directories]

\* The loop body on the next line of the text.
ScanStructLine ==
    /\ struct_pc = "loop"
    /\ Len(struct_lines) < MaxStructLines
    /\ \E line \in StructPool :
         LET st == StructLine(StructLocals, line)
         IN  /\ struct_lines' = Append(struct_lines, line)
             /\ in_structure_section' = st.in_structure_section
             /\ directories' = st.directories
    /\ UNCHANGED <<struct_pc, parserVars, worldVars, sessionVars>>

\* The text has no more lines: return directories.
StructReturn ==
    /\ struct_pc = "loop"
    /\ Len(struct_lines) >= 1
    /\ struct_pc' = "returned"
    /\ UNCHANGED <<struct_lines, in_structure_section, directories,
                   parserVars, worldVars, sessionVars>>

StructInit ==
    /\ struct_lines = <<>>
    /\ in_structure_section = StructStart.in_structure_section
    /\ directories = StructStart.directories
    /\ struct_pc = "loop"
    /\ ParserIdle
    /\ WorldInit
    /\ SessionIdle

StructNext == ScanStructLine \/ StructReturn
StructSpec == StructInit /\ [][StructNext]_vars

(***************************************************************************)
(* Calls on the generator                                                  *)
(***************************************************************************)

\* The longest sequence of calls.
MaxCalls == 2

P_a == <<"a", ".", "p", "y">>
P_quoted == <<" ", "\"", "a", ".", "p", "y", "\"">>
P_abs == <<"/", "e", "t", "c", "/", "p", "a", "s", "s", "w", "d">>
P_drive == <<"C", ":", "\\", "x", "\\", "y", ".", "t", "x", "t">>
P_up == <<".", ".", "/", "x", ".", "p", "y">>
P_dir == <<"s", "r", "c">>

\* The file_path arguments of write_file.
PathPool == { P_a, P_quoted, L_path, P_abs, P_drive, P_up, P_dir }

Code_x == <<"x", "\n">>
Code_y == <<"y">>
Code_crlf == <<"x", "\r", "\n">>
Code_bad == <<"z", Surrogate>>

\* The code arguments of write_file.
CodePool == { Code_x, Code_y, Code_crlf, Code_bad }

D_myproj == <<"m", "y", ".", "p", "r", "o", "j", "/", "s", "r", "c">>
D_abs == <<"/", "e", "t", "c", "/", "x">>
D_docs == <<"d", "o", "c", "s", "/", "a", "p", "i">>

\* The arguments of create_directories.
DirLists ==
    { <<P_dir>>, <<S_dir, L_path>>, <<D_myproj>>, <<D_abs>>, <<S_win, D_docs>>,
      <<P_dir, D_docs>> }

\* The lines a scenario's block holds.
ContentPool == { L_code, L_file }

\* A structure section listing src/ and src/app.py, then a block hinted
\* src/app.py with three lines; `gap` are the lines between the two.
Scenario(gap, c1, c2, c3) ==
    Join(<<S_header, S_dir, L_path>> \o gap
         \o <<L_path, L_python, c1, c2, c3, L_fence>>, "\n")

Scenarios ==
    { Scenario(gap, c1, c2, c3) :
        gap \in {<<>>, <<S_empty>>}, c1 \in ContentPool, c2 \in ContentPool,
        c3 \in ContentPool }

\* A content line that UTF-8 cannot encode.
L_bad == <<"z", Surrogate>>

\* The content lines of a batch's second and third block.
BatchContents == { <<L_code, L_file>>, <<L_code, L_code>>, <<L_code, L_bad>> }

\* A structure section listing src/ and docs/api, then three blocks: one hinted
\* src/app.py, two hinted b.js holding the line c1 and the line c2.
Batch(c1, c2) ==
    Join(<<S_header, S_dir, D_docs, S_empty,
           L_path, L_python, L_code, L_fence,
           L_file, L_fence, c1, L_fence,
           L_file, L_fence, c2, L_fence>>, "\n")

Batches == { Batch(c[1], c[2]) : c \in BatchContents }

\* The response_text arguments of process_response.
Responses == Scenarios \cup Batches

\* What the two extractors return for each of these texts, computed once.
Extraction ==
    [ t \in Responses |->
        [ directories |-> extract_file_structure(t),
          code_blocks |-> parse_code_blocks(t) ] ]

\* ProcessResponse(W, t) for a text t of Responses.
Process(W, t) ==
    ProcessExtracted(W, Extraction[t].directories, Extraction[t].code_blocks)

World == [fs |-> [dirs |-> dirs, files |-> files], file_registry |-> file_registry]

Becomes(W) ==
    /\ dirs' = W.fs.dirs
    /\ files' = W.fs.files
    /\ file_registry' = W.file_registry

write_file ==
    /\ ncalls < MaxCalls
    /\ \E p \in PathPool, c \in CodePool :
         \E r \in {WriteFile(World, p, c)} :
             /\ Becomes(r.world)
             /\ last' = [NoCall EXCEPT !.op = "write_file", !.path = p, !.code = c,
                                       !.ok = r.ok, !.messages = <<r.msg>>,
                                       !.writes = r.writes]
    /\ ncalls' = ncalls + 1
    /\ UNCHANGED <<parserVars, structVars, sessionVars>>

create_directories ==
    /\ ncalls < MaxCalls
    /\ \E ds \in DirLists :
         \E r \in {CreateDirectories(World, ds)} :
             /\ Becomes(r.world)
             /\ last' = [NoCall EXCEPT !.op = "create_directories",
                                       !.candidates = ds, !.messages = r.messages]
    /\ ncalls' = ncalls + 1
    /\ UNCHANGED <<parserVars, structVars, sessionVars>>

process_response ==
    /\ ncalls < MaxCalls
    /\ \E t \in Responses :
         \E r \in {Process(World, t)} :
             /\ Becomes(r.world)
             /\ last' = [NoCall EXCEPT !.op = "process_response", !.text = t,
                                       !.messages = r.messages, !.writes = r.writes,
                                       !.directories = r.directories,
                                       !.code_blocks = r.code_blocks]
    /\ ncalls' = ncalls + 1
    /\ UNCHANGED <<parserVars, structVars, sessionVars>>

Init == ParserIdle /\ StructIdle /\ WorldInit /\ SessionIdle
Next == write_file \/ create_directories \/ process_response
Spec == Init /\ [][Next]_vars

(***************************************************************************)
(* start_generation                                                        *)
(*                                                                         *)
(* The function stops at the collaborator (client.messages.create) and at  *)
(* the user (input): one action per stretch of code between two stops.     *)
(* The collaborator returns a text or raises; the user types an answer.    *)
(***************************************************************************)

\* The most calls a session makes to the collaborator.
MaxGenCalls == 4

Yes == <<"y", "e", "s">>
No == <<"n", "o">>
Modify == <<"m", "o", "d", "i", "f", "y">>

\* What the user types at "Continue with this prompt? (yes/no/modify): ".
ContinueAnswers == { Yes, No, Modify, <<" ", "N", "O">>, <<>> }
\* What the user types at "Retry this round? (yes/no): ".
RetryAnswers == { Yes, No, <<"Y", "e", "s", " ">>, <<"y">> }

\* The prompt the session starts with, and the one typed after "modify".
InitialPrompt == <<"a", "p", "p">>
CustomPrompt == <<"f", "i", "x">>

\* The texts the collaborator returns.
Generated == { Scenario(<<>>, L_code, L_code, L_code), Batch(L_code, L_file) }

Turn(role, content) == [role |-> role, content |-> content]

\* generate_next_prompt(): the fixed template around files_info, one
\* "path: File created: N characters" entry per registry entry, in order.
generate_next_prompt(reg) == [template |-> "continue", files_info |-> reg]

\* create_directory_structure(): [ok, fs].
create_directory_structure(fs) ==
    IF ~Exists(fs, output_dir) THEN MakeDirs(fs, output_dir)
    ELSE [ok |-> TRUE, fs |-> fs]

\* Lines 271-276: up to the first call to the collaborator.
start_generation ==
    /\ sg_pc = "idle"
    /\ \E made \in {create_directory_structure(World.fs)} :
         /\ dirs' = made.fs.dirs
         /\ files' = made.fs.files
         /\ IF made.ok
            THEN /\ conversation_history' =
                      Append(conversation_history, Turn("user", InitialPrompt))
                 /\ sg_pc' = "initial_call"
            ELSE /\ sg_pc' = "raised"
                 /\ UNCHANGED conversation_history
    /\ UNCHANGED <<file_registry, last, ncalls, should_continue, generation_round,
                   calls_made, failed_in_a_row, parserVars, structVars>>

\* Lines 279-299, the collaborator returning response_text: no handler
\* encloses the call.
InitialResponse(response_text) ==
    \E r \in {Process(World, response_text)} :
        /\ Becomes(r.world)
        /\ conversation_history' =
             Append(conversation_history, Turn("assistant", response_text))
        /\ should_continue' = TRUE
        /\ generation_round' = 1
        /\ sg_pc' = "ask_continue"
        /\ failed_in_a_row' = 0

\* Line 279, the collaborator raising: the exception leaves start_generation.
InitialFailure ==
    /\ sg_pc' = "raised"
    /\ failed_in_a_row' = failed_in_a_row + 1
    /\ UNCHANGED <<dirs, files, file_registry, conversation_history,
                   should_continue, generation_round>>

initial_generation ==
    /\ sg_pc = "initial_call"
    /\ calls_made' = calls_made + 1
    /\ \/ \E t \in Generated : InitialResponse(t)
       \/ InitialFailure
    /\ UNCHANGED <<last, ncalls, parserVars, structVars>>

\* Lines 348-349: the loop is left, the completion report is printed.
Completes ==
    /\ should_continue' = FALSE
    /\ sg_pc' = "completed"

\* Lines 301-320: the prompt proposed, the user's answer, the user turn.
ask_continue ==
    /\ sg_pc = "ask_continue"
    /\ should_continue
    /\ \E answer \in ContinueAnswers :
         LET user_input == Lower(Strip(answer))
             next_prompt == IF user_input = Modify THEN CustomPrompt
                            ELSE generate_next_prompt(file_registry)
         IN  IF user_input = No
             THEN Completes /\ UNCHANGED conversation_history
             ELSE /\ calls_made < MaxGenCalls
                  /\ conversation_history' =
                       Append(conversation_history, Turn("user", next_prompt))
                  /\ sg_pc' = "round_call"
                  /\ UNCHANGED should_continue
    /\ UNCHANGED <<worldVars, generation_round, calls_made, failed_in_a_row,
                   parserVars, structVars>>

\* Lines 322-340, the collaborator returning response_text.
RoundResponse(response_text) ==
    \E r \in {Process(World, response_text)} :
        /\ Becomes(r.world)
        /\ conversation_history' =
             Append(conversation_history, Turn("assistant", response_text))
        /\ generation_round' = generation_round + 1
        /\ sg_pc' = "ask_continue"
        /\ failed_in_a_row' = 0

\* Lines 342-343, the collaborator raising: the handler asks for a retry.
RoundFailure ==
    /\ sg_pc' = "ask_retry"
    /\ failed_in_a_row' = failed_in_a_row + 1
    /\ UNCHANGED <<dirs, files, file_registry, conversation_history,
                   generation_round>>

generate_round ==
    /\ sg_pc = "round_call"
    /\ calls_made' = calls_made + 1
    /\ \/ \E t \in Generated : RoundResponse(t)
       \/ RoundFailure
    /\ UNCHANGED <<last, ncalls, should_continue, parserVars, structVars>>

\* Lines 344-346: the user's answer to "Retry this round?".
ask_retry ==
    /\ sg_pc = "ask_retry"
    /\ \E answer \in RetryAnswers :
         LET retry == Lower(Strip(answer))
         IN  IF retry # Yes THEN Completes
             ELSE sg_pc' = "ask_continue" /\ UNCHANGED should_continue
    /\ UNCHANGED <<worldVars, conversation_history, generation_round, calls_made,
                   failed_in_a_row, parserVars, structVars>>

SessionNext ==
    \/ start_generation
    \/ initial_generation
    \/ ask_continue
    \/ generate_round
    \/ ask_retry

SessionSpec == Init /\ [][SessionNext]_vars

(***************************************************************************)
(* Claims                                                                  *)
(***************************************************************************)

\* The final segment of a path string: what follows its last '/' or '\'.
FinalSegment(p) == Last(Split(Last(Split(p, Slash)), Backslash))

\* Whether node n is the output root or lies below it.
UnderOut(n) == Len(n) >= Len(OutNode) /\ SubSeq(n, 1, Len(OutNode)) = OutNode

\* The lines ls, each followed by a newline.
RECURSIVE Newlined(_)
Newlined(ls) ==
    IF ls = <<>> THEN <<>> ELSE ls[1] \o <<"\n">> \o Newlined(Tail(ls))

NotBlank(line) == \E j \in 1..Len(line) : line[j] \notin Whitespace

\* A step that is one write_file call.
WriteFileStep == ncalls' = ncalls + 1 /\ last'.op = "write_file"

\* C1: write_file called twice in a row with the same (path, code), the first
\* call successful: the second call writes nothing, returns success with the
\* 'skipping' message, leaves the files and the registry as they were, and the
\* two calls make exactly one write between them.
C1_SecondWriteSkips ==
    [][ ( /\ last.op = "write_file" /\ last.ok
          /\ WriteFileStep
          /\ last'.path = last.path /\ last'.code = last.code )
        => ( /\ last'.ok
             /\ last'.messages[1].kind = "skipping"
             /\ last'.writes = 0
             /\ files' = files
             /\ file_registry' = file_registry
             /\ last.writes + last'.writes = 1 ) ]_vars

\* C2: a successful write_file of an absolute input (one starting with '/',
\* or drive-letter-style with backslashes) writes the file named by the
\* input's final segment directly under the output root.
C2_AbsoluteCollapsesToBasename ==
    (last.op = "write_file" /\ last.ok /\ last.path \in {P_abs, P_drive})
    => /\ Append(OutNode, FinalSegment(last.path)) \in DOMAIN files
       /\ last.messages[1].path = FinalSegment(last.path)

\* C3: whatever write_file and create_directories calls were made, every
\* file and every directory made lies under the output root.
C3_NothingOutsideOutputRoot ==
    \A n \in (dirs \cup DOMAIN files) \ {Root, Cwd} : UnderOut(n)

\* The texts of C4: a hint line holding a path, an opening fence line, content
\* lines without the fence marker, a closing fence line.
C4_Shape ==
    /\ parse_pc = "returned"
    /\ Len(lines) >= 3
    /\ lines[1] \in {L_path, L_file}
    /\ Contains(lines[2], Fence)
    /\ Contains(Last(lines), Fence)
    /\ \A i \in 3..(Len(lines) - 1) : ~Contains(lines[i], Fence)

\* The path a hint line of C4 holds.
C4_HintPath == IF lines[1] = L_path THEN L_path ELSE <<"b", ".", "j", "s">>

C4_OneBlock ==
    /\ Len(code_blocks) = 1
    /\ code_blocks[1].file_path = Some(C4_HintPath)
    /\ code_blocks[1].code = Newlined(SubSeq(lines, 3, Len(lines) - 1))

\* C4 as stated: for a text of that shape, with any number of content lines,
\* parse_code_blocks returns exactly one block, with the hint's path and the
\* content lines, each followed by a newline.
C4_RoundTripAnyContent == C4_Shape => C4_OneBlock

\* C4 as amended: the same, when at least one content line is not blank.
C4_RoundTrip ==
    (C4_Shape /\ \E i \in 3..(Len(lines) - 1) : NotBlank(lines[i])) => C4_OneBlock

C4_Witness ==
    /\ C4_Shape /\ Len(lines) = 5 /\ lines[1] = L_file
    /\ lines[3] = L_blank /\ lines[4] = L_code
    /\ Len(code_blocks) = 1

\* The line that closes the region opened at line `from`: the next fence line.
C5_ClosedAt(from) ==
    CHOOSE j \in (from + 1)..Len(lines) :
        /\ Contains(lines[j], Fence)
        /\ \A i \in (from + 1)..(j - 1) : ~Contains(lines[i], Fence)

\* C5: the blocks returned are in the order of the lines that opened their
\* regions, each region gives at most one block, and each block holds the lines
\* of its own region.
C5_SourceOrder ==
    /\ \A k, l \in 1..Len(code_blocks) :
         k < l => code_blocks[k].opened_at < code_blocks[l].opened_at
    /\ \A k \in 1..Len(code_blocks) :
         LET from == code_blocks[k].opened_at
         IN  /\ from \in 1..Len(lines)
             /\ Contains(lines[from], Fence)
             /\ code_blocks[k].code =
                  Newlined(SubSeq(lines, from + 1, C5_ClosedAt(from) - 1))

C5_Witness ==
    /\ parse_pc = "returned"
    /\ Len(code_blocks) = 2
    /\ code_blocks[1].code # code_blocks[2].code

\* What is left of a fence line without the fence marker, trimmed.
C6_Tag(line) == Strip(Replace(line, Fence, <<>>))

C6_Default(tag) ==
    IF tag = <<"p", "y", "t", "h", "o", "n">>
    THEN <<"d", "e", "f", "a", "u", "l", "t", ".", "p", "y">>
    ELSE IF tag = <<"j", "a", "v", "a", "s", "c", "r", "i", "p", "t">>
    THEN <<"d", "e", "f", "a", "u", "l", "t", ".", "j", "s">>
    ELSE <<"d", "e", "f", "a", "u", "l", "t", ".">> \o tag

\* C6: an opening fence reached with no pending hint and carrying a language
\* tag gives its block the path default.<ext>: py for python, js for
\* javascript, the tag itself for any other tag.
C6_DefaultNaming ==
    [][ ( /\ ~in_code_block /\ in_code_block'
          /\ file_path_line = <<>>
          /\ C6_Tag(Last(lines')) # <<>> )
        => current_block'.file_path = Some(C6_Default(C6_Tag(Last(lines')))) ]_vars

C6_Witness ==
    /\ in_code_block
    /\ Last(lines) = L_rust
    /\ current_block.file_path =
         Some(<<"d", "e", "f", "a", "u", "l", "t", ".", "r", "u", "s", "t">>)

\* Nothing is in the output directory (which may not exist yet).
OutEmpty == \A n \in dirs \cup DOMAIN files : UnderOut(n) => n = OutNode

SrcNode == Append(OutNode, <<"s", "r", "c">>)
AppNode == Append(SrcNode, <<"a", "p", "p", ".", "p", "y">>)

\* The three content lines of a scenario text.
ScenarioContent(text) ==
    LET ls == Split(text, "\n") IN SubSeq(ls, Len(ls) - 3, Len(ls) - 1)

\* C7: from an empty output directory and an empty registry, process_response
\* on a scenario text (structure section listing src/ and src/app.py, then a
\* block hinted src/app.py with three lines) leaves directory src, file
\* src/app.py holding exactly the three lines, and a registry of exactly one
\* entry, keyed src/app.py.
C7_EndToEnd ==
    [][ ( /\ ncalls' = ncalls + 1
          /\ last'.op = "process_response"
          /\ last'.text \in Scenarios
          /\ file_registry = <<>>
          /\ OutEmpty )
        => ( /\ SrcNode \in dirs'
             /\ AppNode \in DOMAIN files'
             /\ files'[AppNode] = Newlined(ScenarioContent(last'.text))
             /\ Len(file_registry') = 1
             /\ file_registry'[1].path = L_path ) ]_vars

C7_Witness ==
    /\ ncalls = 1
    /\ last.op = "process_response"
    /\ last.text = Scenario(<<S_empty>>, L_code, L_file, L_code)
    /\ AppNode \in DOMAIN files
    /\ Len(file_registry) = 1

\* C8: a candidate extract_file_structure returns that has no path separator
\* has no dot either.
C8_NoDotWithoutSeparator ==
    \A i \in 1..Len(directories) :
        (~Contains(directories[i], <<"/">>) /\ ~Contains(directories[i], <<"\\">>))
        => ~Contains(directories[i], <<".">>)

C8_Witness ==
    /\ struct_pc = "returned"
    /\ struct_lines = <<S_header, S_readme, S_makefile, S_tree>>
    /\ directories = <<S_makefile>>

\* The candidates of `ds`, cleaned, whose final segment has no dot.
RECURSIVE C9_Attempted(_)
C9_Attempted(ds) ==
    IF ds = <<>> THEN <<>>
    ELSE (IF Contains(FinalSegment(CleanPath(ds[1])), <<".">>) THEN <<>>
          ELSE <<CleanPath(ds[1])>>) \o C9_Attempted(Tail(ds))

\* C9: create_directories skips a candidate exactly when its final path
\* segment contains a dot: the candidates without a dot there get one message
\* each, in order, the others none; a directory that exists already is
\* reported as created.
C9_SkipsExactlyDottedFinalSegment ==
    [][ (ncalls' = ncalls + 1 /\ last'.op = "create_directories")
        => /\ [i \in 1..Len(last'.messages) |-> last'.messages[i].path]
                = C9_Attempted(last'.candidates)
           /\ \A i \in 1..Len(last'.messages) :
                IsDir([dirs |-> dirs, files |-> files],
                      Div(output_dir, last'.messages[i].path))
                => last'.messages[i].kind = "created" ]_vars

\* C10: a write_file call that returns failure leaves the registry as it was
\* and every file that existed with the content it had.
C10_FailedWriteChangesNothing ==
    [][ (WriteFileStep /\ ~last'.ok)
        => /\ file_registry' = file_registry
           /\ \A n \in DOMAIN files :
                n \in DOMAIN files' /\ files'[n] = files[n] ]_vars

\* A step that is one process_response call.
ProcessResponseStep == ncalls' = ncalls + 1 /\ last'.op = "process_response"

\* The candidates of ds that create_directories does not filter out, cleaned.
C11_Attempted(ds) ==
    SelectSeq([i \in 1..Len(ds) |-> CleanPath(ds[i])], LAMBDA d : ~LooksLikeFile(d))

\* The paths the blocks bs are written to, as write_file reports them.
C11_Targets(bs) == [j \in 1..Len(bs) |-> SanitizePath(bs[j].file_path[1])]

\* Whether the messages ms are one per directory of ds, then one per target of
\* ts, each telling what the file system `after` shows.
C11_Reported(ds, ts, ms, after) ==
    /\ Len(ms) = Len(ds) + Len(ts)
    /\ \A i \in 1..Len(ds) :
         /\ ms[i].path = ds[i]
         /\ ms[i].kind \in {"created", "error_dir"}
         /\ ms[i].kind = "created" => IsDir(after, Div(output_dir, ds[i]))
    /\ \A j \in 1..Len(ts) :
         /\ ms[Len(ds) + j].path = ts[j]
         /\ ms[Len(ds) + j].kind \in {"wrote", "skipping", "error"}
         /\ ms[Len(ds) + j].kind \in {"wrote", "skipping"}
            => Resolve(after, Div(output_dir, ts[j])).node \in DOMAIN after.files

\* C11: a process_response call returns one message per directory candidate
\* that is not filtered out, in order, then one message per extracted block,
\* in order, whatever failed on the way; a directory reported created is
\* there after the call, and so is a file reported written or skipped.
C11_OneMessagePerOperation ==
    [][ ProcessResponseStep
        => Bind(C11_Attempted(last'.directories), LAMBDA ds :
           Bind(C11_Targets(last'.code_blocks), LAMBDA ts :
             C11_Reported(ds, ts, last'.messages,
                          [dirs |-> dirs', files |-> files']))) ]_vars

\* A batch whose first directory and first block failed and whose later
\* directory and blocks went through.
C11_Witness ==
    /\ last.op = "process_response"
    /\ last.text = Batch(L_code, L_file)
    /\ Len(last.directories) = 2
    /\ Len(last.code_blocks) = 3
    /\ [i \in 1..Len(last.messages) |-> last.messages[i].kind]
         = <<"error_dir", "created", "error", "wrote", "wrote">>

\* The largest number of failed calls in a row that a session of MaxGenCalls
\* calls could make under some bound on retries: one fewer than the calls the
\* loop can make.
C12_RetryBound == MaxGenCalls - 2

\* C12: the collaborator's failed calls in a row stay within a fixed bound,
\* whatever the user answers at the prompts.
C12_BoundedRetries == failed_in_a_row <= C12_RetryBound

\* C13: no call to the collaborator that fails, in the first round or a later
\* one, ends start_generation with an uncaught error: the failure leads to the
\* retry prompt, and a retry declined there leads to the completion report.
C13_FailureCaught ==
    [][ /\ sg_pc' # "raised"
        /\ failed_in_a_row' = failed_in_a_row + 1 => sg_pc' = "ask_retry"
        /\ (sg_pc = "ask_retry" /\ sg_pc' # "ask_continue")
           => sg_pc' = "completed" ]_vars

\* Whether a line qualifies as a file-path hint: it holds the File: label, or
\* ends with a recognized extension, or has a dot after its last '/'.
C14_Qualifies(line) ==
    \/ Contains(line, <<"F", "i", "l", "e", ":">>)
    \/ \E ext \in { <<".", "p", "y">>, <<".", "j", "s">>, <<".", "h", "t", "m", "l">>,
                     <<".", "c", "s", "s">>, <<".", "j", "s", "o", "n">> } :
          EndsWith(line, ext)
    \/ \E i \in 1..Len(line) :
          /\ line[i] = "/"
          /\ \A j \in (i + 1)..Len(line) : line[j] # "/"
          /\ \E j \in (i + 1)..Len(line) : line[j] = "."

\* The last of the lines ls that holds the fence marker (0: none does).
C14_LastFence(ls) ==
    IF \E i \in 1..Len(ls) : Contains(ls[i], Fence)
    THEN CHOOSE i \in 1..Len(ls) :
            /\ Contains(ls[i], Fence)
            /\ \A j \in (i + 1)..Len(ls) : ~Contains(ls[j], Fence)
    ELSE 0

\* The hint lines of ls after its last fence line.
C14_HintLines(ls) ==
    { i \in (C14_LastFence(ls) + 1)..Len(ls) : C14_Qualifies(ls[i]) }

\* What the most recent hint line of ls after its last fence line holds (the
\* line without the File: label, trimmed), or None when there is no hint line.
C14_Recent(ls) ==
    Bind(C14_HintLines(ls), LAMBDA H :
      IF H = {} THEN None
      ELSE Some(Strip(Replace(ls[CHOOSE k \in H : \A j \in H : j <= k],
                              <<"F", "i", "l", "e", ":">>, <<>>))))

\* A step that reads an opening fence line.
OpeningStep == ~in_code_block /\ in_code_block'

\* The text of a block's path, no path counting as the empty text.
C14_PathText(file_path) == IF file_path = None THEN <<>> ELSE file_path[1]

\* C14 as stated: once a hint line was read outside a block, the hint pending
\* is what the most recent hint line holds, through the lines that follow, and
\* the next opening fence gives its block that path, never one made from its
\* language tag.
C14_HintAlwaysTaken ==
    [][ /\ ~in_code_block'
           => Bind(C14_Recent(lines'), LAMBDA hint :
                hint # None => file_path_line' = hint[1])
        /\ OpeningStep
           => Bind(C14_Recent(lines), LAMBDA hint :
                hint # None => C14_PathText(current_block'.file_path) = hint[1])
      ]_vars

\* C14 as amended: the same, when the most recent hint line holds something
\* besides the File: label and whitespace.
C14_HintPersists ==
    [][ /\ ~in_code_block'
           => Bind(C14_Recent(lines'), LAMBDA hint :
                Truthy(hint) => file_path_line' = hint[1])
        /\ OpeningStep
           => Bind(C14_Recent(lines), LAMBDA hint :
                Truthy(hint) => current_block'.file_path = hint) ]_vars

\* A hint, two lines that are neither hints nor fences, a fence with a tag.
C14_Witness ==
    /\ lines = <<L_file, L_code, L_blank, L_rust>>
    /\ in_code_block
    /\ current_block.file_path = Some(<<"b", ".", "j", "s">>)

\* A step that reads a closing fence line.
ClosingStep == in_code_block /\ ~in_code_block'

\* C15: no hint is pending inside a block (the opening fence clears it, the
\* lines of a block set none); so a block opened after an earlier fence with no
\* hint line since gets default.<ext> from its tag, or no path at all, and a
\* block with no path is closed without being returned.
C15_HintConsumedOnce ==
    [][ /\ in_code_block' => file_path_line' = <<>>
        /\ (OpeningStep /\ C14_LastFence(lines) > 0 /\ C14_HintLines(lines) = {})
           => current_block'.file_path =
                IF C6_Tag(Last(lines')) # <<>>
                THEN Some(C6_Default(C6_Tag(Last(lines'))))
                ELSE None
        /\ (ClosingStep /\ current_block.file_path = None)
           => code_blocks' = code_blocks ]_vars

\* A block hinted src/app.py was returned, and the next block, with no hint
\* of its own, has the path of its tag.
C15_Witness ==
    /\ lines = <<L_path, L_python, L_code, L_fence, L_rust>>
    /\ Len(code_blocks) = 1
    /\ code_blocks[1].file_path = Some(L_path)
    /\ current_block.file_path =
         Some(<<"d", "e", "f", "a", "u", "l", "t", ".", "r", "u", "s", "t">>)

\* Whether a block has no path, or an empty one.
C16_NoPath(block) == block.file_path = <<>> \/ block.file_path = << <<>> >>

\* Whether a block's content is empty or only whitespace.
C16_Blank(block) == \A i \in 1..Len(block.code) : block.code[i] \in Whitespace

\* C16: every block of the sequence parse_code_blocks builds has a non-empty
\* path and a content that is not blank; a region closed with no path, or with
\* an empty or blank content, adds nothing to the sequence.
C16_OnlyWholeBlocks ==
    [][ /\ \A k \in 1..Len(code_blocks') :
             ~C16_NoPath(code_blocks'[k]) /\ ~C16_Blank(code_blocks'[k])
        /\ (ClosingStep /\ (C16_NoPath(current_block) \/ C16_Blank(current_block)))
           => code_blocks' = code_blocks ]_vars

\* A region with no path and no content, then a region with a path and a
\* blank content, were closed; neither was returned.
C16_Witness ==
    /\ parse_pc = "returned"
    /\ lines = <<L_fence, L_fence, L_python, L_blank, L_fence>>
    /\ code_blocks = <<>>

\* The lines read that hold the fence marker.
C17_FenceLines == { i \in 1..Len(lines) : Contains(lines[i], Fence) }

\* Whether the fence lines F are odd in number up to line n, and more after.
C17_OpenedAndClosed(F, n) ==
    /\ Cardinality({ i \in F : i <= n }) % 2 = 1
    /\ \E i \in F : i > n

\* C17: after any number of lines, the parser is inside a block exactly when
\* it has read an odd number of fence lines; no content, of a block returned
\* or of the block being read, holds the fence marker; each block returned
\* was opened by an odd-numbered fence line and closed by a later fence line,
\* so a block still open is not among them.
C17_FencesAlternate ==
    Bind(C17_FenceLines, LAMBDA F :
      /\ in_code_block <=> Cardinality(F) % 2 = 1
      /\ ~Contains(current_block.code, Fence)
      /\ \A k \in 1..Len(code_blocks) :
           /\ ~Contains(code_blocks[k].code, Fence)
           /\ C17_OpenedAndClosed(F, code_blocks[k].opened_at)
      /\ Len(code_blocks) <= Cardinality(F) \div 2)

\* A fence line meant as content closed the block, and the text ended inside
\* the block its last fence line opened.
C17_Witness ==
    /\ parse_pc = "returned"
    /\ lines = <<L_python, L_code, L_rust, L_code, L_fence>>
    /\ in_code_block
    /\ Len(code_blocks) = 1
    /\ code_blocks[1].code = L_code \o <<"\n">>

\* Whether each path written with success by one of the blocks bs (targets ts,
\* messages ms) holds, in the file system `after`, the code of the last block
\* that wrote it with success, and is registered in reg with that code's length.
C18_LastWins(bs, ts, ms, after, reg) ==
    LET Wrote(j) == ms[j].kind \in {"wrote", "skipping"}
    IN  \A j \in 1..Len(bs) :
          (Wrote(j) /\ \A l \in (j + 1)..Len(bs) : ~(ts[l] = ts[j] /\ Wrote(l)))
          => LET node == Resolve(after, Div(output_dir, ts[j])).node
             IN  /\ node \in DOMAIN after.files
                 /\ after.files[node] = bs[j].code
                 /\ \E e \in 1..Len(reg) :
                      reg[e].path = ts[j] /\ reg[e].chars = Len(bs[j].code)

\* C18: after a process_response call, every path that one or more blocks
\* wrote with success holds the content of the last of those blocks, and its
\* registry entry records the length of that content.
C18_LastWriteWins ==
    [][ ProcessResponseStep
        => Bind(last'.code_blocks, LAMBDA bs :
           Bind(C11_Targets(bs), LAMBDA ts :
             C18_LastWins(bs, ts,
                          SubSeq(last'.messages,
                                 Len(last'.messages) - Len(bs) + 1,
                                 Len(last'.messages)),
                          [dirs |-> dirs', files |-> files'],
                          file_registry'))) ]_vars

\* Whether the roles of the turns h alternate, starting with user.
C19_Alternates(h) ==
    \A i \in 1..Len(h) : h[i].role = IF i % 2 = 1 THEN "user" ELSE "assistant"

\* C19: the transcript is only ever appended to, and its roles alternate,
\* starting with user.
C19_TranscriptAlternates ==
    [][ /\ Len(conversation_history') >= Len(conversation_history)
        /\ SubSeq(conversation_history', 1, Len(conversation_history))
             = conversation_history
        /\ C19_Alternates(conversation_history') ]_vars

====
